---- MODULE Spec2Model ----
(***************************************************************************)
(* The client-side event-to-graph reconciliation engine: the zustand graph *)
(* store (useAgentStore), the frame router (handleMessage) and the         *)
(* WebSocket connection manager (useAgentWebSocket).                       *)
(*                                                                         *)
(* The store is a record; every store operation is an operator from the    *)
(* store before the call (and the call's payload) to the store after it,   *)
(* as zustand's set((state) => ...) is.  Node ids `agent-<id>` are the     *)
(* pairs <<"agent", id>>, edge ids `edge-<source>-<target>` the triples    *)
(* <<"edge", source, target>>.                                             *)
(***************************************************************************)
EXTENDS Integers, Sequences, FiniteSets, Bags, TLC

NULL == "null"

\* null where the non-null values are node ids / summary objects
\* what reading a property that is not there gives
UNDEFINED == "undefined"

NoNode == <<"null">>
NoSummary == [null |-> TRUE]

(* ------------------------------ bounds -------------------------------- *)

\* Most inputs (inbound frames and UI calls) the store handles in one run.
MaxFrames == 4
\* Most sockets the page creates in one run of the connection manager.
MaxSockets == 3
\* Most sendMessage calls in one run of the connection manager.
MaxSends == 1
\* Most frames the sockets deliver in one run of the connection manager.
MaxDeliveries == 3

(* --------------------------- input domains ---------------------------- *)

AgentIds == {"a1", "a2"}
AgentTypes == {"planner", "custom"}
ParentIds == {NULL, "a1"}
ToolIds == {"t1", "t2"}
ToolNames == {"generate"}
SessionIds == {"s1"}
ImgUrl == "https://x/img.png"
Urls == {ImgUrl}
Times == {0}
Messages == {"working"}

(* ------------------------------ helpers ------------------------------- *)

EmptyMap == [k \in {} |-> NULL]

Has(m, k) == k \in DOMAIN m

\* Map.set(k, v) on a copy of m
MapSet(m, k, v) == [x \in (DOMAIN m) \cup {k} |-> IF x = k THEN v ELSE m[x]]

\* array.map(f)
SeqMap(f(_), seq) == [i \in 1..Len(seq) |-> f(seq[i])]

AgentNodeId(agentId) == <<"agent", agentId>>

ToolNodeId(toolUseId) == <<"tool", toolUseId>>

OrchestratorNodeId == <<"agent", "orchestrator">>

EdgeId(source, target) == <<"edge", source, target>>

DepEdgeId(source, target) == <<"edge-dep", source, target>>

(* --------------------------- lib/utils -------------------------------- *)

\* The fixed type -> pipeline-stage lookup; unknown types fall in a default column.
getAgentColumn(agentType) ==
  CASE agentType = "orchestrator" -> 0
    [] agentType = "planner" -> 1
    [] agentType = "model-extractor" -> 3
    [] OTHER -> 2

\* Classification of a deliverable URL by its extension.
classifyUrl(url) ==
  CASE url = "https://x/img.png" -> "image"
    [] url = "https://x/clip.mp4" -> "video"
    [] url = "https://x/ring.glb" -> "3d_model"
    [] OTHER -> "other"

\* summary.deliverables, the (output id, url) entries in Object.entries order;
\* an absent collection defaults to empty.
deliverableOf(entry) ==
  [type |-> classifyUrl(entry[2]), output_id |-> entry[1],
   url |-> entry[2], label |-> entry[1]]

extractDeliverables(summary) ==
  IF ~Has(summary, "deliverables") THEN << >>
  ELSE SeqMap(deliverableOf, summary.deliverables)

generateOutputId(toolName, url) == <<"output", toolName, url>>

(* ------------------------ store: layout ------------------------------- *)

COLUMN_X_OFFSET == 350
ROW_Y_OFFSET == 180
START_X == 50
START_Y == 50

\* calculateNodePosition with the two spacings exchanged
calculateNodePositionSwapped(column, row) ==
  [x |-> START_X + column * ROW_Y_OFFSET,
   y |-> START_Y + row * COLUMN_X_OFFSET]

calculateNodePosition(column, row) ==
  [x |-> START_X + column * COLUMN_X_OFFSET,
   y |-> START_Y + row * ROW_Y_OFFSET]

(* ------------------- store: state and operations ---------------------- *)

InitialState ==
  [sessionId |-> NULL, sessionStatus |-> "idle", sessionError |-> NULL,
   agents |-> EmptyMap, toolCalls |-> EmptyMap,
   nodes |-> << >>, edges |-> << >>,
   urlToNodeId |-> EmptyMap, columnCounts |-> EmptyMap,
   deliverables |-> << >>, finalSummary |-> NoSummary, selectedNodeId |-> NoNode]

orchestratorNode ==
  [id |-> OrchestratorNodeId, type |-> "agent",
   position |-> calculateNodePosition(0, 0),
   data |-> [label |-> "orchestrator", agentType |-> "orchestrator",
             description |-> "Main orchestrator coordinating all agents",
             status |-> "running"]]

\* startSession that forgets to clear the column counters
startSessionKeepsCounters(s, sessionId) ==
  [sessionId |-> sessionId, sessionStatus |-> "running", sessionError |-> NULL,
   agents |-> EmptyMap, toolCalls |-> EmptyMap,
   nodes |-> <<orchestratorNode>>, edges |-> << >>,
   urlToNodeId |-> EmptyMap, columnCounts |-> MapSet(s.columnCounts, 0, 1),
   deliverables |-> << >>, finalSummary |-> NoSummary, selectedNodeId |-> NoNode]

\* startSession that carries the last session's deliverables over
startSessionKeepsDeliverables(s, sessionId) ==
  [sessionId |-> sessionId, sessionStatus |-> "running", sessionError |-> NULL,
   agents |-> EmptyMap, toolCalls |-> EmptyMap,
   nodes |-> <<orchestratorNode>>, edges |-> << >>,
   urlToNodeId |-> EmptyMap, columnCounts |-> MapSet(EmptyMap, 0, 1),
   deliverables |-> s.deliverables, finalSummary |-> s.finalSummary,
   selectedNodeId |-> NoNode]

startSession(s, sessionId) ==
  [sessionId |-> sessionId, sessionStatus |-> "running", sessionError |-> NULL,
   agents |-> EmptyMap, toolCalls |-> EmptyMap,
   nodes |-> <<orchestratorNode>>, edges |-> << >>,
   urlToNodeId |-> EmptyMap, columnCounts |-> MapSet(EmptyMap, 0, 1),
   deliverables |-> << >>, finalSummary |-> NoSummary, selectedNodeId |-> NoNode]

\* columnCounts.get(column) || 0
columnCount(s, column) ==
  IF Has(s.columnCounts, column) THEN s.columnCounts[column] ELSE 0

\* parentNodeId that hangs every agent under the orchestrator
parentNodeIdAlwaysRoot(data) == OrchestratorNodeId

\* data.parent_id ? `agent-${data.parent_id}` : 'agent-orchestrator'
parentNodeId(data) ==
  IF data.parent_id \in {NULL, UNDEFINED, ""}
  THEN OrchestratorNodeId ELSE AgentNodeId(data.parent_id)

spawnEdge(data) ==
  [id |-> EdgeId(parentNodeId(data), AgentNodeId(data.agent_id)),
   source |-> parentNodeId(data), target |-> AgentNodeId(data.agent_id),
   animated |-> TRUE, stroke |-> "#525252"]

newAgent(data, now) ==
  [id |-> data.agent_id, type |-> data.agent_type,
   description |-> data.description, status |-> "running",
   parentId |-> data.parent_id, messages |-> << >>, timestamp |-> now]

agentNode(data, row) ==
  [id |-> AgentNodeId(data.agent_id), type |-> "agent",
   position |-> calculateNodePosition(getAgentColumn(data.agent_type), row),
   data |-> [label |-> data.agent_id, agentType |-> data.agent_type,
             description |-> data.description, status |-> "running",
             toolCalls |-> << >>]]

\* addAgent that takes the row from the clock
addAgentRowFromClock(s, data, now) ==
  LET column == getAgentColumn(data.agent_type)
      currentCount == columnCount(s, column)
  IN  [s EXCEPT !.agents = MapSet(s.agents, data.agent_id, newAgent(data, now)),
                !.nodes = Append(s.nodes, agentNode(data, currentCount + now)),
                !.edges = Append(s.edges, spawnEdge(data)),
                !.columnCounts = MapSet(s.columnCounts, column, currentCount + 1)]

\* addAgent that takes spawn events only while the session runs
addAgentWhileRunning(s, data, now) ==
  LET column == getAgentColumn(data.agent_type)
      currentCount == columnCount(s, column)
  IN  IF s.sessionStatus # "running" THEN s
      ELSE [s EXCEPT !.agents = MapSet(s.agents, data.agent_id, newAgent(data, now)),
                     !.nodes = Append(s.nodes, agentNode(data, currentCount)),
                     !.edges = Append(s.edges, spawnEdge(data)),
                     !.columnCounts = MapSet(s.columnCounts, column, currentCount + 1)]

\* addAgent that leaves the column counter as it was
addAgentReusesRow(s, data, now) ==
  LET column == getAgentColumn(data.agent_type)
      currentCount == columnCount(s, column)
  IN  [s EXCEPT !.agents = MapSet(s.agents, data.agent_id, newAgent(data, now)),
                !.nodes = Append(s.nodes, agentNode(data, currentCount)),
                !.edges = Append(s.edges, spawnEdge(data))]

addAgent(s, data, now) ==
  LET column == getAgentColumn(data.agent_type)
      currentCount == columnCount(s, column)
  IN  [s EXCEPT !.agents = MapSet(s.agents, data.agent_id, newAgent(data, now)),
                !.nodes = Append(s.nodes, agentNode(data, currentCount)),
                !.edges = Append(s.edges, spawnEdge(data)),
                !.columnCounts = MapSet(s.columnCounts, column, currentCount + 1)]

newToolCall(data, now) ==
  [id |-> data.tool_use_id, agentId |-> data.agent_id, toolName |-> data.tool_name,
   status |-> "running", input |-> data.tool_input_summary,
   inputUrls |-> data.input_urls, output |-> NULL, outputUrl |-> NULL,
   error |-> NULL, timestamp |-> now]

\* (node.data as any).toolCalls || []
existingTools(node) ==
  IF Has(node.data, "toolCalls") THEN node.data.toolCalls ELSE << >>

\* { ...node, data: { ...node.data, toolCalls } }
withToolCalls(node, tools) ==
  [node EXCEPT !.data =
     [k \in (DOMAIN node.data) \cup {"toolCalls"} |->
        IF k = "toolCalls" THEN tools ELSE node.data[k]]]

\* startToolCall that records a tool call only when its agent has a node
startToolCallNeedsNode(s, data, now) ==
  LET agentNodeId == AgentNodeId(data.agent_id)
      toolCall == newToolCall(data, now)
      embed(node) == IF node.id = agentNodeId
                     THEN withToolCalls(node, Append(existingTools(node), toolCall))
                     ELSE node
  IN  IF \E i \in 1..Len(s.nodes) : s.nodes[i].id = agentNodeId
      THEN [s EXCEPT !.toolCalls = MapSet(s.toolCalls, data.tool_use_id, toolCall),
                     !.nodes = SeqMap(embed, s.nodes)]
      ELSE s

startToolCall(s, data, now) ==
  LET agentNodeId == AgentNodeId(data.agent_id)
      toolCall == newToolCall(data, now)
      embed(node) == IF node.id = agentNodeId
                     THEN withToolCalls(node, Append(existingTools(node), toolCall))
                     ELSE node
  IN  [s EXCEPT !.toolCalls = MapSet(s.toolCalls, data.tool_use_id, toolCall),
                !.nodes = SeqMap(embed, s.nodes)]

\* nodeTools?.some((t) => t.id === toolUseId)
embedsTool(node, toolUseId) ==
  /\ Has(node.data, "toolCalls")
  /\ \E i \in 1..Len(node.data.toolCalls) : node.data.toolCalls[i].id = toolUseId

completeToolCall(s, data) ==
  LET status == IF data.success THEN "complete" ELSE "error"
  IN  IF Has(s.toolCalls, data.tool_use_id)
      THEN LET toolCall == s.toolCalls[data.tool_use_id]
               updatedToolCall == [toolCall EXCEPT !.status = status,
                                                   !.output = data.result,
                                                   !.outputUrl = data.result_url,
                                                   !.error = data.error]
               swap(t) == IF t.id = data.tool_use_id THEN updatedToolCall ELSE t
               update(node) ==
                 IF embedsTool(node, data.tool_use_id)
                 THEN withToolCalls(node, SeqMap(swap, node.data.toolCalls))
                 ELSE node
           IN  [s EXCEPT !.toolCalls = MapSet(s.toolCalls, data.tool_use_id, updatedToolCall),
                         !.nodes = SeqMap(update, s.nodes),
                         !.urlToNodeId =
                           IF data.result_url # NULL /\ data.result_url # ""
                           THEN MapSet(s.urlToNodeId, data.result_url,
                                       AgentNodeId(toolCall.agentId))
                           ELSE s.urlToNodeId]
      ELSE s

addAgentMessage(s, data) ==
  IF Has(s.agents, data.agent_id)
  THEN [s EXCEPT !.agents[data.agent_id].messages = Append(@, data.message)]
  ELSE s

\* completeAgent that stills every edge at the agent's node, in or out
completeAgentStillsOutgoing(s, agentId) ==
  LET done(node) == IF node.id = AgentNodeId(agentId)
                    THEN [node EXCEPT !.data.status = "complete"] ELSE node
      still(edge) == IF (edge.target = AgentNodeId(agentId) \/ edge.source = AgentNodeId(agentId))
                        /\ Has(edge, "animated") /\ edge.animated
                     THEN [edge EXCEPT !.animated = FALSE] ELSE edge
  IN  [s EXCEPT !.agents = IF Has(s.agents, agentId)
                           THEN [s.agents EXCEPT ![agentId].status = "complete"]
                           ELSE s.agents,
                !.nodes = SeqMap(done, s.nodes),
                !.edges = SeqMap(still, s.edges)]

\* completeAgent that takes the finished spawn edge out of the edge list
completeAgentDropsEdge(s, agentId) ==
  LET done(node) == IF node.id = AgentNodeId(agentId)
                    THEN [node EXCEPT !.data.status = "complete"] ELSE node
      live(edge) == edge.target # AgentNodeId(agentId)
  IN  [s EXCEPT !.agents = IF Has(s.agents, agentId)
                           THEN [s.agents EXCEPT ![agentId].status = "complete"]
                           ELSE s.agents,
                !.nodes = SeqMap(done, s.nodes),
                !.edges = SelectSeq(s.edges, live)]

completeAgent(s, agentId) ==
  LET done(node) == IF node.id = AgentNodeId(agentId)
                    THEN [node EXCEPT !.data.status = "complete"] ELSE node
      still(edge) == IF edge.target = AgentNodeId(agentId) /\ Has(edge, "animated")
                        /\ edge.animated
                     THEN [edge EXCEPT !.animated = FALSE] ELSE edge
  IN  [s EXCEPT !.agents = IF Has(s.agents, agentId)
                           THEN [s.agents EXCEPT ![agentId].status = "complete"]
                           ELSE s.agents,
                !.nodes = SeqMap(done, s.nodes),
                !.edges = SeqMap(still, s.edges)]

\* completeSession that adds the deliverables to those already listed
completeSessionAppends(s, data) ==
  [s EXCEPT !.sessionStatus = "complete",
            !.deliverables = s.deliverables \o extractDeliverables(data.summary),
            !.finalSummary = [k \in (DOMAIN data.summary) \cup {"duration_ms"} |->
                                IF k = "duration_ms" THEN data.duration_ms
                                ELSE data.summary[k]]]

completeSession(s, data) ==
  [s EXCEPT !.sessionStatus = "complete",
            !.deliverables = extractDeliverables(data.summary),
            !.finalSummary = [k \in (DOMAIN data.summary) \cup {"duration_ms"} |->
                                IF k = "duration_ms" THEN data.duration_ms
                                ELSE data.summary[k]]]

\* setSessionError that also closes the side panel
setSessionErrorClosesPanel(s, error) ==
  [s EXCEPT !.sessionStatus = "error", !.sessionError = error,
            !.selectedNodeId = NoNode]

setSessionError(s, error) ==
  [s EXCEPT !.sessionStatus = "error", !.sessionError = error]

setSelectedNode(s, nodeId) == [s EXCEPT !.selectedNodeId = nodeId]

\* reset that leaves the side panel's selection alone
resetKeepsSelection(s) == [InitialState EXCEPT !.selectedNodeId = s.selectedNodeId]

reset(s) == InitialState

(* ---------- store: the build that draws tool calls as nodes ------------ *)
(* frontend/store/agentStore.ts defines the same store with tool calls as  *)
(* graph nodes of their own.  startSession, addAgentMessage, completeAgent,*)
(* completeSession, setSessionError, setSelectedNode and reset are the     *)
(* same text in both files.                                                *)

frontend_addAgent(s, data, now) ==
  LET column == getAgentColumn(data.agent_type)
      currentCount == columnCount(s, column)
      node == [id |-> AgentNodeId(data.agent_id), type |-> "agent",
               position |-> calculateNodePosition(column, currentCount),
               data |-> [label |-> data.agent_id, agentType |-> data.agent_type,
                         description |-> data.description, status |-> "running"]]
  IN  [s EXCEPT !.agents = MapSet(s.agents, data.agent_id, newAgent(data, now)),
                !.nodes = Append(s.nodes, node),
                !.edges = Append(s.edges, spawnEdge(data)),
                !.columnCounts = MapSet(s.columnCounts, column, currentCount + 1)]

\* state.nodes.find((n) => n.id === nodeId): the first match, 0 when none
findNode(s, nodeId) ==
  IF \E i \in 1..Len(s.nodes) : s.nodes[i].id = nodeId
  THEN CHOOSE i \in 1..Len(s.nodes) :
         /\ s.nodes[i].id = nodeId
         /\ \A j \in 1..(i - 1) : s.nodes[j].id # nodeId
  ELSE 0

\* START_X + (agentColumn + 0.5) * COLUMN_X_OFFSET, baseY + existing * 100
toolNodePosition(s, data) ==
  LET agentColumn == IF Has(s.agents, data.agent_id)
                     THEN getAgentColumn(s.agents[data.agent_id].type) ELSE 2
      existingToolsForAgent ==
        Cardinality({k \in DOMAIN s.toolCalls : s.toolCalls[k].agentId = data.agent_id})
      at == findNode(s, AgentNodeId(data.agent_id))
      baseY == IF at # 0 THEN s.nodes[at].position.y ELSE START_Y
  IN  [x |-> START_X + agentColumn * COLUMN_X_OFFSET + COLUMN_X_OFFSET \div 2,
       y |-> baseY + existingToolsForAgent * 100]

\* one dependency edge per input URL the index knows, in input order
RECURSIVE dependencyEdges(_, _, _)
dependencyEdges(s, urls, nodeId) ==
  IF urls = << >> THEN << >>
  ELSE LET url == Head(urls)
           rest == dependencyEdges(s, Tail(urls), nodeId)
       IN  IF Has(s.urlToNodeId, url)
           THEN <<[id |-> DepEdgeId(s.urlToNodeId[url], nodeId),
                   source |-> s.urlToNodeId[url], target |-> nodeId,
                   stroke |-> "#22c55e", label |-> "data"]>> \o rest
           ELSE rest

frontend_startToolCall(s, data, now) ==
  LET nodeId == ToolNodeId(data.tool_use_id)
      node == [id |-> nodeId, type |-> "tool", position |-> toolNodePosition(s, data),
               data |-> [toolName |-> data.tool_name, status |-> "running",
                         input |-> data.tool_input_summary,
                         inputUrls |-> data.input_urls,
                         output |-> NULL, outputUrl |-> NULL]]
      toolEdge == [id |-> EdgeId(AgentNodeId(data.agent_id), nodeId),
                   source |-> AgentNodeId(data.agent_id), target |-> nodeId,
                   animated |-> TRUE, stroke |-> "#FF4400"]
  IN  [s EXCEPT !.toolCalls = MapSet(s.toolCalls, data.tool_use_id, newToolCall(data, now)),
                !.nodes = Append(s.nodes, node),
                !.edges = s.edges \o <<toolEdge>>
                            \o dependencyEdges(s, data.input_urls, nodeId)]

frontend_completeToolCall(s, data) ==
  LET nodeId == ToolNodeId(data.tool_use_id)
      status == IF data.success THEN "complete" ELSE "error"
      hasUrl == data.result_url # NULL /\ data.result_url # ""
      outputId == IF hasUrl THEN generateOutputId(data.tool_name, data.result_url)
                  ELSE NULL
      update(node) ==
        IF node.id = nodeId
        THEN [node EXCEPT !.data =
                [k \in (DOMAIN node.data) \cup {"status", "output", "outputUrl", "outputId", "error"} |->
                   CASE k = "status" -> status
                     [] k = "output" -> data.result
                     [] k = "outputUrl" -> data.result_url
                     [] k = "outputId" -> outputId
                     [] k = "error" -> data.error
                     [] OTHER -> node.data[k]]]
        ELSE node
      still(edge) == IF edge.target = nodeId /\ Has(edge, "animated") /\ edge.animated
                     THEN [edge EXCEPT !.animated = FALSE] ELSE edge
  IN  [s EXCEPT !.toolCalls =
                  IF Has(s.toolCalls, data.tool_use_id)
                  THEN [s.toolCalls EXCEPT ![data.tool_use_id] =
                          [@ EXCEPT !.status = status, !.output = data.result,
                                    !.outputUrl = data.result_url, !.error = data.error]]
                  ELSE s.toolCalls,
                !.nodes = SeqMap(update, s.nodes),
                !.edges = SeqMap(still, s.edges),
                !.urlToNodeId = IF hasUrl THEN MapSet(s.urlToNodeId, data.result_url, nodeId)
                                ELSE s.urlToNodeId]

(* ------------------------------ frames -------------------------------- *)

\* An inbound frame as JSON.parse returns it; [json |-> FALSE] is a frame
\* JSON.parse throws on.  Optional envelope fields are absent from the record.
EventFrame(kind, data) ==
  [json |-> TRUE, type |-> "event", event_type |-> kind, data |-> data]

SessionStartedFrames ==
  {[json |-> TRUE, type |-> "event", event_type |-> "SESSION_STARTED",
    session_id |-> sid, data |-> [session_id |-> sid, request_preview |-> "p"]] :
     sid \in SessionIds}

SpawnData(A, T, P) ==
  [agent_id : A, agent_type : T, description : {"d"}, parent_id : P]

ToolStartData(A, I) ==
  [agent_id : A, tool_name : ToolNames, tool_input_summary : {"in"},
   input_urls : {<< >>} \cup {<<u>> : u \in Urls}, tool_use_id : I]

ToolCompleteData(A, I) ==
  {[agent_id |-> a, tool_name |-> n, tool_use_id |-> i, success |-> ok,
    result_url |-> u, result |-> IF ok THEN "done" ELSE NULL,
    error |-> IF ok THEN NULL ELSE "failed"] :
     a \in A, n \in ToolNames, i \in I, ok \in BOOLEAN, u \in {NULL} \cup Urls}

MessageData(A) == [agent_id : A, message : Messages]

AgentCompleteData(A) == [agent_id : A, summary : {"sum"}]

Summaries == {[tool_calls |-> 1], [deliverables |-> <<<<"IMAGE-001", ImgUrl>>>>]}

SessionCompleteData == [final_url : {NULL}, duration_ms : {1200}, summary : Summaries]

SessionErrorData == [error : {"backend failed"}]

FramesOf(kind, payloads) == {EventFrame(kind, data) : data \in payloads}

SpawnFrames == FramesOf("SUBAGENT_SPAWNED", SpawnData(AgentIds, AgentTypes, ParentIds))
ToolStartFrames == FramesOf("TOOL_CALL_START", ToolStartData(AgentIds, ToolIds))
\* completeToolCall never reads the payload's agent_id
ToolCompleteFrames == FramesOf("TOOL_CALL_COMPLETE", ToolCompleteData({"a1"}, ToolIds))
MessageFrames == FramesOf("AGENT_MESSAGE", MessageData(AgentIds))
AgentCompleteFrames == FramesOf("AGENT_COMPLETE", AgentCompleteData(AgentIds))
SessionCompleteFrames == FramesOf("SESSION_COMPLETE", SessionCompleteData)
SessionErrorFrames == FramesOf("SESSION_ERROR", SessionErrorData)

EventFrames ==
  SessionStartedFrames \cup SpawnFrames \cup ToolStartFrames \cup ToolCompleteFrames
    \cup MessageFrames \cup AgentCompleteFrames \cup SessionCompleteFrames
    \cup SessionErrorFrames

\* The fields of the payload interfaces of types/events
SpawnFields == {"agent_id", "agent_type", "description", "parent_id"}
ToolStartFields ==
  {"agent_id", "tool_name", "tool_input_summary", "input_urls", "tool_use_id"}

\* message.data as SubagentSpawnedData and the like: the cast checks nothing,
\* and a field the frame does not carry reads as undefined
payload(data, fields) ==
  [k \in fields \cup DOMAIN data |-> IF k \in DOMAIN data THEN data[k] ELSE UNDEFINED]

\* message.session_id || ''
sessionIdOf(frame) == IF Has(frame, "session_id") THEN frame.session_id ELSE ""

\* message.message || 'Unknown error'
errorTextOf(frame) ==
  IF Has(frame, "message") /\ frame.message # "" THEN frame.message ELSE "Unknown error"

handleEvent(s, frame, now) ==
  CASE frame.event_type = "SESSION_STARTED" -> startSession(s, sessionIdOf(frame))
    [] frame.event_type = "SUBAGENT_SPAWNED" ->
         addAgent(s, payload(frame.data, SpawnFields), now)
    [] frame.event_type = "TOOL_CALL_START" ->
         startToolCall(s, payload(frame.data, ToolStartFields), now)
    [] frame.event_type = "TOOL_CALL_COMPLETE" -> completeToolCall(s, frame.data)
    [] frame.event_type = "AGENT_MESSAGE" -> addAgentMessage(s, frame.data)
    [] frame.event_type = "AGENT_COMPLETE" -> completeAgent(s, frame.data.agent_id)
    [] frame.event_type = "SESSION_COMPLETE" -> completeSession(s, frame.data)
    [] frame.event_type = "SESSION_ERROR" -> setSessionError(s, frame.data.error)
    [] OTHER -> s

frontend_handleEvent(s, frame, now) ==
  CASE frame.event_type = "SUBAGENT_SPAWNED" ->
         frontend_addAgent(s, payload(frame.data, SpawnFields), now)
    [] frame.event_type = "TOOL_CALL_START" ->
         frontend_startToolCall(s, payload(frame.data, ToolStartFields), now)
    [] frame.event_type = "TOOL_CALL_COMPLETE" -> frontend_completeToolCall(s, frame.data)
    [] OTHER -> handleEvent(s, frame, now)

\* handleMessage whose catch block reports the parse failure to the store
handleMessageReportsParseFailure(s, frame, now) ==
  IF ~frame.json THEN setSessionError(s, "Failed to parse message")
  ELSE CASE frame.type = "event" ->
              IF ~Has(frame, "event_type") \/ ~Has(frame, "data") THEN s
              ELSE handleEvent(s, frame, now)
         [] frame.type = "error" -> setSessionError(s, errorTextOf(frame))
         [] OTHER -> s

\* handleMessage that takes the cancellation-ack as the end of the session
handleMessageCancelEndsSession(s, frame, now) ==
  IF ~frame.json THEN s
  ELSE CASE frame.type = "event" ->
              IF ~Has(frame, "event_type") \/ ~Has(frame, "data") THEN s
              ELSE handleEvent(s, frame, now)
         [] frame.type = "error" -> setSessionError(s, errorTextOf(frame))
         [] frame.type = "session_cancelled" -> setSessionError(s, "Session cancelled")
         [] OTHER -> s

handleMessage(s, frame, now) ==
  IF ~frame.json THEN s
  ELSE CASE frame.type = "event" ->
              IF ~Has(frame, "event_type") \/ ~Has(frame, "data") THEN s
              ELSE handleEvent(s, frame, now)
         [] frame.type = "error" -> setSessionError(s, errorTextOf(frame))
         [] OTHER -> s

frontend_handleMessage(s, frame, now) ==
  IF ~frame.json THEN s
  ELSE CASE frame.type = "event" ->
              IF ~Has(frame, "event_type") \/ ~Has(frame, "data") THEN s
              ELSE frontend_handleEvent(s, frame, now)
         [] frame.type = "error" -> setSessionError(s, errorTextOf(frame))
         [] OTHER -> s

(* ------------------------------ state --------------------------------- *)

VARIABLES
  store,      \* the graph store (useAgentStore)
  twin,       \* a second store, fed the same inputs at other times
  pre,        \* the store as it was before the last input was handled
  last,       \* the last input handled: an inbound frame or a UI call
  handled     \* how many inputs have been handled so far

VARIABLES
  sockets,            \* every WebSocket connect() has created: its readyState
  ws,                 \* ws.current: an index into sockets, 0 for null
  reconnectTimeout,   \* reconnectTimeout.current and whether its timer is pending
  pingInterval,       \* pingInterval.current and whether its interval is running
  isConnected,        \* the hook's isConnected state
  clientId,           \* the hook's clientId state
  wire,               \* what has been transmitted: a bag of <<socket, message>>
  sendLog,            \* every sendMessage call: its message, ws.current, the
                      \* socket's readyState at the call, and the result
  disconnected        \* disconnect() was the last explicit connect()/disconnect()

storeVars == <<store, twin, pre, last, handled>>

connVars == <<sockets, ws, reconnectTimeout, pingInterval, isConnected, clientId,
              wire, sendLog, disconnected>>

vars == <<storeVars, connVars>>

NoInput == [call |-> "none"]

StoreInit ==
  /\ store = InitialState
  /\ twin = InitialState
  /\ pre = InitialState
  /\ last = NoInput
  /\ handled = 0

\* useRef(null) x3, useState(false), useState(null)
ConnInit ==
  /\ sockets = << >>
  /\ ws = 0
  /\ reconnectTimeout = NULL
  /\ pingInterval = NULL
  /\ isConnected = FALSE
  /\ clientId = NULL
  /\ wire = EmptyBag
  /\ sendLog = << >>
  /\ disconnected = FALSE

Init == StoreInit /\ ConnInit

\* one more input is taken from the stream
Taken(input) ==
  /\ handled < MaxFrames
  /\ handled' = handled + 1
  /\ pre' = store
  /\ last' = input
  /\ UNCHANGED connVars

(* ----------------- the store behind handleMessage --------------------- *)

\* ws.onmessage = handleMessage: the handler runs to completion on one frame,
\* one action per event kind.

SessionStarted ==
  \E frame \in SessionStartedFrames :
    /\ Taken(frame)
    /\ store' = handleMessage(store, frame, 0)
    /\ UNCHANGED twin

SubagentSpawned ==
  \E frame \in SpawnFrames, now \in Times :
    /\ Taken(frame)
    /\ store' = handleMessage(store, frame, now)
    /\ UNCHANGED twin

ToolCallStart ==
  \E frame \in ToolStartFrames, now \in Times :
    /\ Taken(frame)
    /\ store' = handleMessage(store, frame, now)
    /\ UNCHANGED twin

ToolCallComplete ==
  \E frame \in ToolCompleteFrames :
    /\ Taken(frame)
    /\ store' = handleMessage(store, frame, 0)
    /\ UNCHANGED twin

AgentMessage ==
  \E frame \in MessageFrames :
    /\ Taken(frame)
    /\ store' = handleMessage(store, frame, 0)
    /\ UNCHANGED twin

AgentComplete ==
  \E frame \in AgentCompleteFrames :
    /\ Taken(frame)
    /\ store' = handleMessage(store, frame, 0)
    /\ UNCHANGED twin

SessionComplete ==
  \E frame \in SessionCompleteFrames :
    /\ Taken(frame)
    /\ store' = handleMessage(store, frame, 0)
    /\ UNCHANGED twin

SessionError ==
  \E frame \in SessionErrorFrames :
    /\ Taken(frame)
    /\ store' = handleMessage(store, frame, 0)
    /\ UNCHANGED twin

\* ChatInput.handleSubmit: resetAgentStore()
Reset ==
  /\ Taken([call |-> "reset"])
  /\ store' = reset(store)
  /\ UNCHANGED twin

nodeIds(s) == {s.nodes[i].id : i \in 1..Len(s.nodes)}

\* AgentFlow: onNodeClick / onPaneClick / the side panel's onClose
SelectNode ==
  \E nodeId \in nodeIds(store) \cup {NoNode} :
    /\ Taken([call |-> "setSelectedNode", nodeId |-> nodeId])
    /\ store' = setSelectedNode(store, nodeId)
    /\ UNCHANGED twin

Next ==
  \/ SessionStarted
  \/ SubagentSpawned
  \/ ToolCallStart
  \/ ToolCallComplete
  \/ AgentMessage
  \/ AgentComplete
  \/ SessionComplete
  \/ SessionError
  \/ Reset
  \/ SelectNode

Spec == Init /\ [][Next]_vars

(* ------------- the build that draws tool calls as nodes --------------- *)

FrontendReceive ==
  \E frame \in EventFrames, now \in Times :
    /\ Taken(frame)
    /\ store' = frontend_handleMessage(store, frame, now)
    /\ UNCHANGED twin

FrontendNext == FrontendReceive \/ Reset \/ SelectNode

FrontendSpec == Init /\ [][FrontendNext]_vars

(* ---- the store fed the whole event alphabet about one tool call ------- *)

\* The events of Spec, those about tool calls and messages for agent a1 and
\* tool call t1 alone: every kind of event, a narrower stream, a longer run.
GraphToolStartFrames == FramesOf("TOOL_CALL_START", ToolStartData({"a1"}, {"t1"}))
GraphToolCompleteFrames == FramesOf("TOOL_CALL_COMPLETE", ToolCompleteData({"a1"}, {"t1"}))
GraphMessageFrames == FramesOf("AGENT_MESSAGE", MessageData({"a1"}))

GraphToolCallStart ==
  \E frame \in GraphToolStartFrames, now \in Times :
    /\ Taken(frame)
    /\ store' = handleMessage(store, frame, now)
    /\ UNCHANGED twin

GraphToolCallComplete ==
  \E frame \in GraphToolCompleteFrames :
    /\ Taken(frame)
    /\ store' = handleMessage(store, frame, 0)
    /\ UNCHANGED twin

GraphAgentMessage ==
  \E frame \in GraphMessageFrames :
    /\ Taken(frame)
    /\ store' = handleMessage(store, frame, 0)
    /\ UNCHANGED twin

GraphNext ==
  \/ SessionStarted
  \/ SubagentSpawned
  \/ GraphToolCallStart
  \/ GraphToolCallComplete
  \/ GraphAgentMessage
  \/ AgentComplete
  \/ SessionComplete
  \/ SessionError
  \/ Reset
  \/ SelectNode

GraphSpec == Init /\ [][GraphNext]_vars

(* -------- two stores fed one event sequence at different times -------- *)

TwinTimes == {0, 1}

\* the stream both stores are fed
TwinFrames ==
  SessionStartedFrames
    \cup FramesOf("SUBAGENT_SPAWNED", SpawnData(AgentIds, AgentTypes, {NULL}))
    \cup FramesOf("TOOL_CALL_START", ToolStartData({"a1"}, {"t1"}))
    \cup FramesOf("TOOL_CALL_COMPLETE", ToolCompleteData({"a1"}, {"t1"}))
    \cup FramesOf("AGENT_COMPLETE", AgentCompleteData({"a1"}))

TwinReceive ==
  \E frame \in TwinFrames, now \in Times, later \in TwinTimes :
    /\ Taken(frame)
    /\ store' = handleMessage(store, frame, now)
    /\ twin' = handleMessage(twin, frame, later)

TwinReset ==
  /\ Taken([call |-> "reset"])
  /\ store' = reset(store)
  /\ twin' = reset(twin)

TwinNext == TwinReceive \/ TwinReset

TwinSpec == Init /\ [][TwinNext]_vars

(* ----------------------- connection manager --------------------------- *)
(* reconnectTimeout is NULL (the ref is null), "armed" (the ref holds a    *)
(* timer that has not fired) or "fired" (the ref still holds the handle of *)
(* a timer that has fired).  pingInterval is NULL, "running", or "cleared" *)
(* (the ref still holds the handle of an interval clearInterval stopped).  *)

\* ws.current?.readyState === WebSocket.OPEN
currentIsOpen(socks, cur) == cur # 0 /\ socks[cur].readyState = "OPEN"

\* the guard at the top of connect(): a new socket is made unless it holds
connectReturnsEarly(socks, cur) == currentIsOpen(socks, cur)

\* connect(): the sockets and ws.current after the call
connectSockets(socks, cur) ==
  IF connectReturnsEarly(socks, cur) THEN socks
  ELSE Append(socks, [readyState |-> "CONNECTING"])

connectCurrent(socks, cur) ==
  IF connectReturnsEarly(socks, cur) THEN cur ELSE Len(socks) + 1

\* the bound: connect() is not called when it would make one socket too many
connectInBounds == connectReturnsEarly(sockets, ws) \/ Len(sockets) < MaxSockets

\* connect() called by the page, and the mount effect's connect()
Connect ==
  /\ connectInBounds
  /\ sockets' = connectSockets(sockets, ws)
  /\ ws' = connectCurrent(sockets, ws)
  /\ disconnected' = FALSE
  /\ UNCHANGED <<reconnectTimeout, pingInterval, isConnected, clientId, wire, sendLog>>
  /\ UNCHANGED storeVars

\* WebSocket.close(): CONNECTING and OPEN sockets start closing
closeSocket(sock) ==
  IF sock.readyState \in {"CONNECTING", "OPEN"}
  THEN [sock EXCEPT !.readyState = "CLOSING"] ELSE sock

\* disconnect() called by the page, and the mount effect's cleanup
Disconnect ==
  /\ reconnectTimeout' = NULL
  /\ pingInterval' = NULL
  /\ sockets' = IF ws # 0 THEN [sockets EXCEPT ![ws] = closeSocket(@)] ELSE sockets
  /\ ws' = 0
  /\ isConnected' = FALSE
  /\ clientId' = NULL
  /\ disconnected' = TRUE
  /\ UNCHANGED <<wire, sendLog>>
  /\ UNCHANGED storeVars

\* the socket's open event: ws.current.onopen
SocketOpens ==
  \E s \in 1..Len(sockets) :
    /\ sockets[s].readyState = "CONNECTING"
    /\ sockets' = [sockets EXCEPT ![s].readyState = "OPEN"]
    /\ isConnected' = TRUE
    /\ pingInterval' = "running"
    /\ UNCHANGED <<ws, reconnectTimeout, clientId, wire, sendLog, disconnected>>
    /\ UNCHANGED storeVars

\* onclose that sets a timer only when the ref holds none
oncloseTimeoutOnce(timeout) == IF timeout = NULL THEN "armed" ELSE timeout

\* onclose: what it leaves in reconnectTimeout (clearTimeout, then setTimeout)
oncloseTimeout(timeout) == "armed"

\* onclose: if (pingInterval.current) clearInterval(pingInterval.current)
onclosePing(ping) == IF ping # NULL THEN "cleared" ELSE ping

\* the socket's close event (a failed connect, a drop, or the end of close()):
\* ws.current.onclose
SocketCloses ==
  \E s \in 1..Len(sockets) :
    /\ sockets[s].readyState # "CLOSED"
    /\ sockets' = [sockets EXCEPT ![s].readyState = "CLOSED"]
    /\ isConnected' = FALSE
    /\ clientId' = NULL
    /\ pingInterval' = onclosePing(pingInterval)
    /\ reconnectTimeout' = oncloseTimeout(reconnectTimeout)
    /\ UNCHANGED <<ws, wire, sendLog, disconnected>>
    /\ UNCHANGED storeVars

\* a reconnect timer that also starts the store over
ReconnectTimerFiresFresh ==
  /\ reconnectTimeout = "armed"
  /\ connectInBounds
  /\ reconnectTimeout' = "fired"
  /\ sockets' = connectSockets(sockets, ws)
  /\ ws' = connectCurrent(sockets, ws)
  /\ store' = InitialState
  /\ UNCHANGED <<pingInterval, isConnected, clientId, wire, sendLog, disconnected>>
  /\ UNCHANGED <<twin, pre, last, handled>>

\* the reconnect timer fires RECONNECT_DELAY after onclose set it: connect()
ReconnectTimerFires ==
  /\ reconnectTimeout = "armed"
  /\ connectInBounds
  /\ reconnectTimeout' = "fired"
  /\ sockets' = connectSockets(sockets, ws)
  /\ ws' = connectCurrent(sockets, ws)
  /\ UNCHANGED <<pingInterval, isConnected, clientId, wire, sendLog, disconnected>>
  /\ UNCHANGED storeVars

\* the probes already sent on socket s
pings(s) == {sent \in BagToSet(wire) : sent[1] = s /\ sent[2].type = "PING"}

\* the heartbeat interval fires every PING_INTERVAL; the model follows the
\* first probe on each connection
PingTimerFires ==
  /\ pingInterval = "running"
  /\ ws # 0 => pings(ws) = {}
  /\ wire' = IF currentIsOpen(sockets, ws)
             THEN wire (+) SetToBag({<<ws, [type |-> "PING", call |-> 0]>>}) ELSE wire
  /\ UNCHANGED <<sockets, ws, reconnectTimeout, pingInterval, isConnected, clientId,
                 sendLog, disconnected>>
  /\ UNCHANGED storeVars

\* sendMessage that only checks that there is a socket
canSendOnAnySocket(socks, cur) == cur # 0

\* sendMessage: whether it transmits (and returns true)
canSend(socks, cur) == currentIsOpen(socks, cur)

\* sendMessage(message), the message tagged with the number of the call
SendMessage ==
  \E type \in {"START_SESSION", "CANCEL_SESSION"} :
    LET message == [type |-> type, call |-> Len(sendLog) + 1]
        ok == canSend(sockets, ws)
    IN  /\ Len(sendLog) < MaxSends
        /\ wire' = IF ok THEN wire (+) SetToBag({<<ws, message>>}) ELSE wire
        /\ sendLog' = Append(sendLog,
                     [message |-> message, socket |-> ws,
                      readyState |-> IF ws = 0 THEN "none" ELSE sockets[ws].readyState,
                      result |-> ok])
        /\ UNCHANGED <<sockets, ws, reconnectTimeout, pingInterval, isConnected,
                       clientId, disconnected>>
        /\ UNCHANGED storeVars

\* message.client_id || null of a handshake-ack
clientIdAfter(frame, current) ==
  IF frame.json /\ frame.type = "connected"
  THEN (IF Has(frame, "client_id") /\ frame.client_id # "" THEN frame.client_id ELSE NULL)
  ELSE current

\* the client id the server assigns to the connection of socket s
ClientIdOf(s) == <<"c1", "c2", "c3", "c4", "c5", "c6">>[s]

\* an open socket delivers the server's handshake-ack: ws.current.onmessage
SocketMessage ==
  \E s \in 1..Len(sockets) :
    /\ sockets[s].readyState = "OPEN"
    /\ clientId' = clientIdAfter([json |-> TRUE, type |-> "connected",
                                   client_id |-> ClientIdOf(s)],
                                  clientId)
    /\ UNCHANGED <<sockets, ws, reconnectTimeout, pingInterval, isConnected,
                   wire, sendLog, disconnected>>
    /\ UNCHANGED storeVars

\* the connection's life cycle and what the caller sends
ConnNext ==
  \/ Connect
  \/ Disconnect
  \/ SocketOpens
  \/ SocketCloses
  \/ ReconnectTimerFires
  \/ SendMessage

ConnSpec == Init /\ [][ConnNext]_vars

\* timers that are due do fire
ConnFairSpec == ConnSpec /\ WF_vars(ReconnectTimerFires)

\* the same with the heartbeat and the server's handshake-ack
HookNext ==
  \/ ConnNext
  \/ PingTimerFires
  \/ SocketMessage

HookSpec == Init /\ [][HookNext]_vars

(* ------------- a session streamed over the connection ----------------- *)

\* the frames of one short session, as the server streams them
DeliveredFrames ==
  SessionStartedFrames
    \cup FramesOf("SUBAGENT_SPAWNED", SpawnData({"a1"}, {"planner"}, {NULL}))
    \cup FramesOf("TOOL_CALL_COMPLETE", ToolCompleteData({"a1"}, {"t1"}))
    \cup SessionCompleteFrames

\* an open socket delivers a frame of the session: ws.current.onmessage
SocketDelivers ==
  \E s \in 1..Len(sockets), frame \in DeliveredFrames :
    /\ sockets[s].readyState = "OPEN"
    /\ handled < MaxDeliveries
    /\ Taken(frame)
    /\ store' = handleMessage(store, frame, 0)
    /\ UNCHANGED twin

LinkNext ==
  \/ Connect
  \/ SocketOpens
  \/ SocketCloses
  \/ ReconnectTimerFires
  \/ SocketDelivers

LinkSpec == Init /\ [][LinkNext]_vars

(* ----------------- every kind of frame the router sees ----------------- *)

Envelope(type) == [json |-> TRUE, type |-> type]

RouterFrames ==
  SessionStartedFrames
    \cup {EventFrame("SESSION_STARTED", [request_preview |-> "p"])}
    \cup FramesOf("SUBAGENT_SPAWNED", SpawnData({"a1", "orchestrator"}, {"planner"}, {NULL}))
    \cup FramesOf("TOOL_CALL_START", ToolStartData({"a1"}, {"t1"}))
    \cup FramesOf("TOOL_CALL_COMPLETE", ToolCompleteData({"a1"}, {"t1"}))
    \cup FramesOf("AGENT_MESSAGE", MessageData({"a1"}))
    \cup FramesOf("AGENT_COMPLETE", AgentCompleteData({"a1"}))
    \cup SessionCompleteFrames
    \cup SessionErrorFrames
    \cup {EventFrame("AGENT_PAUSED", [agent_id |-> "a1"])}
    \cup {EventFrame("SUBAGENT_SPAWNED",
                      [agent_type |-> "planner", description |-> "d", parent_id |-> NULL])}
    \cup {[json |-> TRUE, type |-> "event", event_type |-> "SUBAGENT_SPAWNED"]}
    \cup {[json |-> TRUE, type |-> "event", data |-> [agent_id |-> "a1"]]}
    \cup {Envelope("connected"), [json |-> TRUE, type |-> "connected", client_id |-> "c1"]}
    \cup {Envelope("pong"), Envelope("session_cancelled"), Envelope("info"),
          Envelope("bogus")}
    \cup {Envelope("error"), [json |-> TRUE, type |-> "error", message |-> "bad request"]}
    \cup {[json |-> FALSE]}

\* handleMessage on any frame: the store and the hook's clientId
RouterReceive ==
  \E frame \in RouterFrames, now \in Times :
    /\ handled < MaxFrames
    /\ handled' = handled + 1
    /\ pre' = store
    /\ last' = frame
    /\ store' = handleMessage(store, frame, now)
    /\ clientId' = clientIdAfter(frame, clientId)
    /\ UNCHANGED <<twin, sockets, ws, reconnectTimeout, pingInterval, isConnected,
                   wire, sendLog, disconnected>>

RouterNext == RouterReceive \/ Reset \/ SelectNode

RouterSpec == Init /\ [][RouterNext]_vars

(* ============================== claims ================================ *)

IsEvent(input, kind) ==
  /\ Has(input, "json") /\ input.json
  /\ Has(input, "type") /\ input.type = "event"
  /\ Has(input, "event_type") /\ Has(input, "data")
  /\ input.event_type = kind

IsCall(input, name) == Has(input, "call") /\ input.call = name

isDependencyEdge(edge) == edge.id[1] = "edge-dep"

Terminal == {"complete", "error"}

\* C1: when a tool call starts with an input URL that the dependency index
\* already maps to a producing agent's node (a completed tool call of that agent
\* carried the URL), the edge list afterwards holds a dependency edge from the
\* producer's node to the node of the agent that started the tool call.
C1_DependencyEdge ==
  IsEvent(last, "TOOL_CALL_START") =>
    \A k \in 1..Len(last.data.input_urls) :
      Has(pre.urlToNodeId, last.data.input_urls[k]) =>
        \E i \in 1..Len(store.edges) :
          /\ isDependencyEdge(store.edges[i])
          /\ store.edges[i].source = pre.urlToNodeId[last.data.input_urls[k]]
          /\ store.edges[i].target = AgentNodeId(last.data.agent_id)

\* C2: once a session has started, the node list holds the root and one node
\* per distinct agent id spawned since.
C2_NodeCount ==
  store.sessionId # NULL =>
    Len(store.nodes) = 1 + Cardinality(DOMAIN store.agents)

\* C3: an agent that is complete or error in the map and on its nodes is not
\* pending or running after the next input, unless that input resets the graph.
C3_TerminalAgentStays ==
  ~(IsEvent(last, "SESSION_STARTED") \/ IsCall(last, "reset")) =>
    \A a \in DOMAIN pre.agents :
      (/\ pre.agents[a].status \in Terminal
       /\ \A i \in 1..Len(pre.nodes) :
            pre.nodes[i].id = AgentNodeId(a) => pre.nodes[i].data.status \in Terminal)
      => /\ Has(store.agents, a)
         /\ store.agents[a].status \in Terminal
         /\ \A i \in 1..Len(store.nodes) :
              store.nodes[i].id = AgentNodeId(a) => store.nodes[i].data.status \in Terminal

\* C4: a session that is complete or error stays complete or error under every
\* inbound frame; the one way out is reset(), which returns it to idle.
C4_TerminalSessionOnlyReset ==
  pre.sessionStatus \in Terminal =>
    \/ store.sessionStatus \in Terminal
    \/ store.sessionStatus = "idle" /\ IsCall(last, "reset")

\* C5: whatever the store held, after a session-started event it is the fresh
\* single-root state: the root alone at the layout origin, no edges, no agents,
\* no tool calls, an empty dependency index, column 0 holding the root's slot
\* and nothing else, no deliverables, no selection, status running.  The result
\* does not depend on the store before, so a second session-started event in
\* a row leaves the same graph.
C5_StartSessionFresh ==
  IsEvent(last, "SESSION_STARTED") =>
    /\ Len(store.nodes) = 1
    /\ store.nodes[1].id = <<"agent", "orchestrator">>
    /\ store.nodes[1].position = [x |-> 50, y |-> 50]
    /\ store.nodes[1].data.status = "running"
    /\ store.edges = << >>
    /\ DOMAIN store.agents = {}
    /\ DOMAIN store.toolCalls = {}
    /\ DOMAIN store.urlToNodeId = {}
    /\ DOMAIN store.columnCounts = {0} /\ store.columnCounts[0] = 1
    /\ store.deliverables = << >>
    /\ store.finalSummary = NoSummary
    /\ store.selectedNodeId = NoNode
    /\ store.sessionError = NULL
    /\ store.sessionStatus = "running"
    /\ store.sessionId = sessionIdOf(last)

C5_StartedOverAUsedStore ==
  /\ IsEvent(last, "SESSION_STARTED")
  /\ Len(pre.nodes) > 1
  /\ pre.edges # << >>
  /\ pre.deliverables # << >>
  /\ \E c \in DOMAIN pre.columnCounts : c # 0

\* C6: two stores fed the same inputs in the same order, each at times of its
\* own, hold the same node ids at the same positions in the same order.
C6_LayoutDeterministic ==
  /\ Len(store.nodes) = Len(twin.nodes)
  /\ \A i \in 1..Len(store.nodes) :
       /\ store.nodes[i].id = twin.nodes[i].id
       /\ store.nodes[i].position = twin.nodes[i].position

C6_SameLayoutAtOtherTimes ==
  /\ Len(store.nodes) >= 3
  /\ \E a \in DOMAIN store.agents : store.agents[a].timestamp # twin.agents[a].timestamp
  /\ \E i \in 1..Len(store.nodes) : store.nodes[i].position.y > START_Y

liveSockets == {s \in 1..Len(sockets) : sockets[s].readyState \in {"CONNECTING", "OPEN"}}

\* C7: at most one socket the connection manager created is connecting or open.
C7_AtMostOneLiveSocket == Cardinality(liveSockets) <= 1

\* C8: after disconnect(), until connect() is called again, no reconnect timer is
\* pending and ws.current holds no new socket.
C8_DisconnectStopsReconnect ==
  disconnected => reconnectTimeout # "armed" /\ ws = 0

allClosed == sockets # << >> /\ \A s \in 1..Len(sockets) : sockets[s].readyState = "CLOSED"

\* C9: whenever every socket has closed and disconnect() has not been called, a
\* new socket is eventually connecting (or disconnect() is called, or the run
\* has used up its sockets); after each failed attempt again.
C9_ReconnectFollowsClose ==
  (allClosed /\ ~disconnected)
    ~> (liveSockets # {} \/ disconnected \/ Len(sockets) >= MaxSockets)

C9_RetryAfterFailedAttempt ==
  /\ allClosed /\ ~disconnected
  /\ Len(sockets) >= 2 /\ Len(sockets) < MaxSockets

\* the transmissions of the message of sendMessage call k
transmissions(k) == {sent \in BagToSet(wire) : sent[2] = sendLog[k].message}

\* C10: a sendMessage call returns true exactly when ws.current was open at the
\* call; a message of a call that returned false is nowhere on the wire, at the
\* call or at any time later; a message of a call that returned true is on the
\* wire once, on the socket that was current.
C10_SendNeverQueues ==
  \A k \in 1..Len(sendLog) :
    /\ sendLog[k].result = (sendLog[k].readyState = "OPEN")
    /\ ~sendLog[k].result => transmissions(k) = {}
    /\ sendLog[k].result =>
         /\ transmissions(k) = {<<sendLog[k].socket, sendLog[k].message>>}
         /\ CopiesIn(<<sendLog[k].socket, sendLog[k].message>>, wire) = 1

C10_ReconnectedAfterFailedSend ==
  /\ sendLog # << >>
  /\ ~sendLog[1].result
  /\ Len(sockets) >= 2
  /\ currentIsOpen(sockets, ws)

isMalformed(input) == Has(input, "json") /\ ~input.json

\* C11: a frame that fails to parse leaves every field of the store as it was,
\* so the frames after it meet the state they would have met without it.
C11_MalformedFrameAbsorbed ==
  isMalformed(last) => store = pre

C11_MalformedFrameMidSession ==
  /\ isMalformed(last)
  /\ store.sessionStatus = "running"
  /\ Len(store.nodes) > 1
  /\ DOMAIN store.toolCalls # {}

\* The fields the payload interface of each event kind requires
RequiredFields(kind) ==
  CASE kind = "SESSION_STARTED" -> {"session_id", "request_preview"}
    [] kind = "SUBAGENT_SPAWNED" -> SpawnFields
    [] kind = "TOOL_CALL_START" -> ToolStartFields
    [] kind = "TOOL_CALL_COMPLETE" ->
         {"agent_id", "tool_name", "tool_use_id", "success", "result_url", "result", "error"}
    [] kind = "AGENT_MESSAGE" -> {"agent_id", "message"}
    [] kind = "AGENT_COMPLETE" -> {"agent_id", "summary"}
    [] kind = "SESSION_COMPLETE" -> {"final_url", "duration_ms", "summary"}
    [] kind = "SESSION_ERROR" -> {"error"}
    [] OTHER -> {}

lacksRequiredField(input) ==
  /\ Has(input, "json") /\ input.json
  /\ input.type = "event"
  /\ \/ ~Has(input, "event_type")
     \/ ~Has(input, "data")
     \/ RequiredFields(input.event_type) \ DOMAIN input.data # {}

\* C12: a domain-event frame without its event kind, without its payload, or
\* without a field its payload requires leaves the store as it was.
C12_IncompleteEventDropped ==
  lacksRequiredField(last) => store = pre

\* C13: the session becomes error, or its error message changes while it is
\* error, only on a session-error domain event.
C13_ErrorOnlyFromSessionError ==
  (/\ store.sessionStatus = "error"
   /\ pre.sessionStatus # "error" \/ store.sessionError # pre.sessionError)
    => IsEvent(last, "SESSION_ERROR")

EventKinds ==
  {"SESSION_STARTED", "SUBAGENT_SPAWNED", "TOOL_CALL_START", "TOOL_CALL_COMPLETE",
   "AGENT_MESSAGE", "AGENT_COMPLETE", "SESSION_COMPLETE", "SESSION_ERROR"}

\* a frame that parses and is neither a domain event of a recognised kind nor
\* a transport-error envelope
isIgnoredEnvelope(input) ==
  /\ Has(input, "json") /\ input.json
  /\ \/ input.type \notin {"event", "error"}
     \/ /\ input.type = "event"
        /\ Has(input, "event_type") /\ Has(input, "data")
        /\ input.event_type \notin EventKinds

\* C14: a handshake-ack, heartbeat-ack or cancellation-ack, an envelope of an
\* unknown type, and a domain event of an unrecognised kind leave every field
\* of the store as it was.
C14_OtherEnvelopesIgnored ==
  isIgnoredEnvelope(last) => store = pre

C14_CancelAckMidSession ==
  /\ isIgnoredEnvelope(last)
  /\ last.type = "session_cancelled"
  /\ store.sessionStatus = "running"
  /\ Len(store.nodes) > 1

rootNodes(s) == {i \in 1..Len(s.nodes) : s.nodes[i].id = <<"agent", "orchestrator">>}

\* C15: from startSession until reset() the node list holds exactly one node of
\* id agent-orchestrator, at the layout origin, and the spawn edge added for
\* an agent of null parent id has that node as its source.
C15_SingleRoot ==
  /\ store.sessionId # NULL =>
       /\ Cardinality(rootNodes(store)) = 1
       /\ \A i \in rootNodes(store) : store.nodes[i].position = [x |-> START_X, y |-> START_Y]
  /\ (IsEvent(last, "SUBAGENT_SPAWNED") /\ last.data.parent_id = NULL) =>
       /\ Len(store.edges) = Len(pre.edges) + 1
       /\ store.edges[Len(store.edges)].source = <<"agent", "orchestrator">>

\* C16: no two nodes of the node list have the same id, and no two edges of
\* the edge list have the same id.
C16_UniqueIds ==
  /\ \A i, j \in 1..Len(store.nodes) : store.nodes[i].id = store.nodes[j].id => i = j
  /\ \A i, j \in 1..Len(store.edges) : store.edges[i].id = store.edges[j].id => i = j

startsOver(input) == IsEvent(input, "SESSION_STARTED") \/ IsCall(input, "reset")

\* C17: a tool call that is complete or error keeps its status, output, output
\* URL and error text under every later event of the session.
C17_ToolCallSettlesOnce ==
  ~startsOver(last) =>
    \A id \in DOMAIN pre.toolCalls :
      pre.toolCalls[id].status \in Terminal =>
        /\ Has(store.toolCalls, id)
        /\ store.toolCalls[id].status = pre.toolCalls[id].status
        /\ store.toolCalls[id].output = pre.toolCalls[id].output
        /\ store.toolCalls[id].outputUrl = pre.toolCalls[id].outputUrl
        /\ store.toolCalls[id].error = pre.toolCalls[id].error

hasNode(s, nodeId) == \E i \in 1..Len(s.nodes) : s.nodes[i].id = nodeId

isEmbedded(s, toolUseId) == \E i \in 1..Len(s.nodes) : embedsTool(s.nodes[i], toolUseId)

statusOf(success) == IF success THEN "complete" ELSE "error"

\* C18: a tool call started for an agent that has no node is put in the
\* tool-call map and the node list stays as it was; a completion of a tool call
\* that no node embeds still updates its map entry; and a node added by a spawn
\* starts with an empty tool list, whatever the map holds for that agent.
C18_NoRetroactiveAttachment ==
  /\ (IsEvent(last, "TOOL_CALL_START") /\ ~hasNode(pre, AgentNodeId(last.data.agent_id))) =>
       /\ store.nodes = pre.nodes
       /\ Has(store.toolCalls, last.data.tool_use_id)
       /\ store.toolCalls[last.data.tool_use_id].agentId = last.data.agent_id
       /\ store.toolCalls[last.data.tool_use_id].status = "running"
  /\ (/\ IsEvent(last, "TOOL_CALL_COMPLETE")
      /\ Has(pre.toolCalls, last.data.tool_use_id)
      /\ ~isEmbedded(pre, last.data.tool_use_id)) =>
       /\ store.nodes = pre.nodes
       /\ store.toolCalls[last.data.tool_use_id].status = statusOf(last.data.success)
       /\ store.toolCalls[last.data.tool_use_id].output = last.data.result
  /\ (IsEvent(last, "SUBAGENT_SPAWNED") /\ Has(last.data, "agent_id")) =>
       /\ Len(store.nodes) = Len(pre.nodes) + 1
       /\ store.nodes[Len(store.nodes)].id = AgentNodeId(last.data.agent_id)
       /\ store.nodes[Len(store.nodes)].data.toolCalls = << >>

C18_SpawnedAfterItsToolCall ==
  /\ IsEvent(last, "SUBAGENT_SPAWNED")
  /\ \E id \in DOMAIN store.toolCalls :
       /\ store.toolCalls[id].agentId = last.data.agent_id
       /\ store.toolCalls[id].status \in Terminal
       /\ ~isEmbedded(store, id)
  /\ store.sessionStatus = "running"
  /\ Len(store.nodes) = 2

\* C19: a completion event for a tool call of the map sets its status, by the
\* success flag, in the map and in every copy a node embeds; a result URL maps
\* afterwards to the node of the agent that started the tool call, and a null
\* result URL leaves the dependency index as it was.
C19_CompleteToolCall ==
  (IsEvent(last, "TOOL_CALL_COMPLETE") /\ Has(pre.toolCalls, last.data.tool_use_id)) =>
    LET id == last.data.tool_use_id
        url == last.data.result_url
    IN  /\ store.toolCalls[id].status = statusOf(last.data.success)
        /\ \A i \in 1..Len(store.nodes) :
             Has(store.nodes[i].data, "toolCalls") =>
               \A k \in 1..Len(store.nodes[i].data.toolCalls) :
                 store.nodes[i].data.toolCalls[k].id = id =>
                   store.nodes[i].data.toolCalls[k].status = statusOf(last.data.success)
        /\ url # NULL =>
             /\ Has(store.urlToNodeId, url)
             /\ store.urlToNodeId[url] = AgentNodeId(pre.toolCalls[id].agentId)
        /\ url = NULL => store.urlToNodeId = pre.urlToNodeId

\* C20: an agent-complete event for agent id stills (animated = false) the
\* edges whose target is node agent-<id> and changes nothing else of them; every
\* other edge, those leaving agent-<id> among them, and every node other than
\* agent-<id> is as it was.
C20_CompleteAgentFrame ==
  IsEvent(last, "AGENT_COMPLETE") =>
    LET nodeId == AgentNodeId(last.data.agent_id)
    IN  /\ Len(store.edges) = Len(pre.edges)
        /\ \A i \in 1..Len(pre.edges) :
             IF pre.edges[i].target = nodeId
             THEN store.edges[i] = [pre.edges[i] EXCEPT !.animated = FALSE]
             ELSE store.edges[i] = pre.edges[i]
        /\ Len(store.nodes) = Len(pre.nodes)
        /\ \A i \in 1..Len(pre.nodes) :
             pre.nodes[i].id # nodeId => store.nodes[i] = pre.nodes[i]

C20_CompletedWithAChildRunning ==
  /\ IsEvent(last, "AGENT_COMPLETE")
  /\ \E i, j \in 1..Len(store.edges) :
       /\ pre.edges[i].target = AgentNodeId(last.data.agent_id)
       /\ pre.edges[i].animated /\ ~store.edges[i].animated
       /\ pre.edges[j].source = AgentNodeId(last.data.agent_id)
       /\ pre.edges[j].target # AgentNodeId(last.data.agent_id)
       /\ store.edges[j].animated

GraphEvents ==
  {"SUBAGENT_SPAWNED", "TOOL_CALL_START", "TOOL_CALL_COMPLETE", "AGENT_MESSAGE",
   "AGENT_COMPLETE"}

isGraphEvent(input) == \E kind \in GraphEvents : IsEvent(input, kind)

graphOf(s) ==
  [nodes |-> s.nodes, edges |-> s.edges, agents |-> s.agents, toolCalls |-> s.toolCalls,
   urlToNodeId |-> s.urlToNodeId, columnCounts |-> s.columnCounts]

sessionOf(s) ==
  [sessionId |-> s.sessionId, sessionStatus |-> s.sessionStatus,
   sessionError |-> s.sessionError, deliverables |-> s.deliverables]

SessionStatuses == {"idle", "running", "complete", "error"}

\* C21: a spawn, tool-start, tool-complete, message or agent-complete event
\* leaves session status, id, error and deliverables as they were, and what it
\* does to nodes, edges, agents, tool calls, dependency index and column
\* counters is what it would have done under any other session status.
C21_GraphEventsIgnoreStatus ==
  isGraphEvent(last) =>
    /\ sessionOf(store) = sessionOf(pre)
    /\ \A status \in SessionStatuses :
         \E now \in Times :
           graphOf(handleMessage([pre EXCEPT !.sessionStatus = status], last, now))
             = graphOf(store)

C21_SpawnAfterCompletion ==
  /\ IsEvent(last, "SUBAGENT_SPAWNED")
  /\ pre.sessionStatus = "complete"
  /\ Len(store.nodes) = Len(pre.nodes) + 1
  /\ store.deliverables # << >>

\* C22: a complete session stays complete under every frame until reset(), and
\* a session-completed event does not make an error session complete.
C22_CompleteIsFrozen ==
  /\ (pre.sessionStatus = "complete" /\ ~IsCall(last, "reset")) =>
       store.sessionStatus = "complete"
  /\ (pre.sessionStatus = "error" /\ IsEvent(last, "SESSION_COMPLETE")) =>
       store.sessionStatus = "error"

\* C23: unless the input starts a session or resets the store, every agent and
\* tool call of the maps is still there, the nodes and edges that were in the
\* lists are still there in their places, and each node has the id and the
\* position it had.
C23_AppendOnly ==
  ~startsOver(last) =>
    /\ DOMAIN pre.agents \subseteq DOMAIN store.agents
    /\ DOMAIN pre.toolCalls \subseteq DOMAIN store.toolCalls
    /\ Len(store.nodes) >= Len(pre.nodes)
    /\ \A i \in 1..Len(pre.nodes) :
         /\ store.nodes[i].id = pre.nodes[i].id
         /\ store.nodes[i].position = pre.nodes[i].position
    /\ Len(store.edges) >= Len(pre.edges)
    /\ \A i \in 1..Len(pre.edges) :
         /\ store.edges[i].id = pre.edges[i].id
         /\ store.edges[i].source = pre.edges[i].source
         /\ store.edges[i].target = pre.edges[i].target

C23_ChangedInPlace ==
  /\ IsEvent(last, "AGENT_COMPLETE")
  /\ Len(pre.nodes) >= 2
  /\ store.nodes # pre.nodes
  /\ store.edges # pre.edges
  /\ DOMAIN store.toolCalls # {}

\* C24: whatever the store held, after reset() it is the state the store is
\* constructed in: status idle, session id and error null, no nodes, no edges,
\* no agents, no tool calls, empty dependency index and column counters, no
\* deliverables, no final summary, no selection.  The result does not depend on
\* the store before, so a second reset() changes nothing.
C24_ResetIsInitial ==
  IsCall(last, "reset") =>
    /\ store.sessionStatus = "idle"
    /\ store.sessionId = NULL
    /\ store.sessionError = NULL
    /\ store.nodes = << >>
    /\ store.edges = << >>
    /\ DOMAIN store.agents = {}
    /\ DOMAIN store.toolCalls = {}
    /\ DOMAIN store.urlToNodeId = {}
    /\ DOMAIN store.columnCounts = {}
    /\ store.deliverables = << >>
    /\ store.finalSummary = NoSummary
    /\ store.selectedNodeId = NoNode
    /\ reset(store) = store

C24_ResetOfAUsedStore ==
  /\ IsCall(last, "reset")
  /\ pre.sessionStatus = "complete"
  /\ pre.deliverables # << >>
  /\ pre.nodes # << >>
  /\ pre.selectedNodeId # NoNode

carriesTheImage(input) ==
  /\ IsEvent(input, "SESSION_COMPLETE")
  /\ Has(input.data.summary, "deliverables")
  /\ input.data.summary.deliverables = <<<<"IMAGE-001", "https://x/img.png">>>>

\* C25: after a session-completed event whose summary lists the one deliverable
\* IMAGE-001 -> https://x/img.png the session is complete and the deliverable
\* list holds exactly one entry: an image, of that URL, its output id taken
\* from the entry.
C25_OneImageDeliverable ==
  carriesTheImage(last) =>
    /\ store.sessionStatus = "complete"
    /\ Len(store.deliverables) = 1
    /\ store.deliverables[1].type = "image"
    /\ store.deliverables[1].url = "https://x/img.png"
    /\ store.deliverables[1].output_id = "IMAGE-001"

C25_CompletedAgain ==
  /\ carriesTheImage(last)
  /\ pre.deliverables # << >>
  /\ Len(store.nodes) > 1

Columns == 0..3

columnOf(node) == getAgentColumn(node.data.agentType)

\* the number of nodes placed in a column
occupancy(s, column) ==
  Cardinality({i \in DOMAIN s.nodes : columnOf(s.nodes[i]) = column})

\* C27: every column counter equals the number of nodes placed in the column
\* (the root counted in column 0), so a spawned agent gets that number as its
\* row; a spawn raises the counter of its column by one and leaves the others,
\* no event but a session start or a reset lowers a counter, and no two nodes
\* of the list have the same position.
C27_RowsNeverReused ==
  /\ \A c \in Columns : columnCount(store, c) = occupancy(store, c)
  /\ IsEvent(last, "SUBAGENT_SPAWNED") =>
       LET column == getAgentColumn(last.data.agent_type)
           node == store.nodes[Len(store.nodes)]
       IN  /\ node.position = calculateNodePosition(column, occupancy(pre, column))
           /\ \A c \in Columns :
                columnCount(store, c) =
                  columnCount(pre, c) + (IF c = column THEN 1 ELSE 0)
  /\ ~startsOver(last) =>
       \A c \in Columns : columnCount(store, c) >= columnCount(pre, c)
  /\ \A i, j \in DOMAIN store.nodes :
       store.nodes[i].position = store.nodes[j].position => i = j

C27_SecondRowOfAColumn ==
  /\ IsEvent(last, "SUBAGENT_SPAWNED")
  /\ store.sessionStatus = "running"
  /\ hasNode(store, OrchestratorNodeId)
  /\ occupancy(pre, getAgentColumn(last.data.agent_type)) = 1
  /\ Len(store.nodes) = 4

\* C28: a spawned agent's node is at x = 50 + 350 * column and
\* y = 50 + 180 * row, the column looked up from the agent's type and the row
\* the counter of that column before the spawn; the root node is at (50, 50).
C28_NodePosition ==
  /\ IsEvent(last, "SUBAGENT_SPAWNED") =>
       LET column == getAgentColumn(last.data.agent_type)
           row == columnCount(pre, column)
           node == store.nodes[Len(store.nodes)]
       IN  /\ node.position.x = 50 + 350 * column
           /\ node.position.y = 50 + 180 * row
  /\ \A i \in DOMAIN store.nodes :
       store.nodes[i].id = OrchestratorNodeId =>
         store.nodes[i].position = [x |-> 50, y |-> 50]

C28_PlacedBelowAndRight ==
  /\ IsEvent(last, "SUBAGENT_SPAWNED")
  /\ hasNode(store, OrchestratorNodeId)
  /\ store.nodes[Len(store.nodes)].position = [x |-> 750, y |-> 230]

referencesUnknownId(s, input) ==
  \/ IsEvent(input, "AGENT_COMPLETE") /\ ~Has(s.agents, input.data.agent_id)
  \/ IsEvent(input, "AGENT_MESSAGE") /\ ~Has(s.agents, input.data.agent_id)
  \/ IsEvent(input, "TOOL_CALL_COMPLETE") /\ ~Has(s.toolCalls, input.data.tool_use_id)

\* C29: an agent-complete or agent-message event for an agent id that is not in
\* the agent map, or a tool-complete event for a tool-call id that is not in
\* the tool-call map, leaves nodes, edges, the agent map, the tool-call map,
\* the dependency index and the column counters as they were.
C29_UnknownIdChangesNothing ==
  referencesUnknownId(pre, last) => graphOf(store) = graphOf(pre)

\* C30: the isConnected flag is true exactly when the current socket, the one
\* sendMessage would use, is open: never false while that socket is open and
\* never true while there is no current socket or it is not open.
C30_FlagTracksCurrentSocket ==
  isConnected <=> currentIsOpen(sockets, ws)

heartbeatRunning == pingInterval = "running"

\* C31: a heartbeat timer is running exactly when the current socket is open:
\* none runs while there is no current socket or it is not open, and the close
\* event of an earlier socket does not stop the heartbeat of the current open
\* socket.
C31_HeartbeatTracksCurrentSocket ==
  heartbeatRunning <=> currentIsOpen(sockets, ws)

reconnects == SocketCloses \/ ReconnectTimerFires \/ SocketOpens

\* C32: a socket's close event, the firing of the reconnect timer and a socket's
\* open event leave nodes, edges, agents, tool calls, the dependency index, the
\* column counters, the session fields and the deliverables as they were.
C32_ReconnectKeepsStore ==
  [][reconnects => /\ graphOf(store') = graphOf(store)
                   /\ sessionOf(store') = sessionOf(store)]_vars

C32_ReconnectedMidSession ==
  /\ Len(sockets) = 2
  /\ sockets[1].readyState = "CLOSED"
  /\ ws = 2
  /\ sockets[2].readyState = "OPEN"
  /\ reconnectTimeout = "fired"
  /\ store.sessionStatus = "running"
  /\ Len(store.nodes) = 2

endsSession(input) ==
  IsEvent(input, "SESSION_COMPLETE") \/ IsEvent(input, "SESSION_ERROR")

\* the store as it would be had no session-completed or session-error event
\* been applied since the session started
unended(s) ==
  [s EXCEPT !.sessionStatus = "running", !.sessionError = NULL,
            !.deliverables = << >>, !.finalSummary = NoSummary]

\* C33: a session-completed or session-error event changes session-level
\* fields only: nodes, edges, the agent map, the tool-call map, the dependency
\* index, the column counters, the selected node and the session id are as
\* they were, completeSession leaves the error message and setSessionError the
\* deliverables and the summary; and a graph event handled after them gives the
\* graph it gives on the same store of a session that was never ended.
C33_SessionLevelOnly ==
  /\ endsSession(last) =>
       /\ graphOf(store) = graphOf(pre)
       /\ store.selectedNodeId = pre.selectedNodeId
       /\ store.sessionId = pre.sessionId
  /\ IsEvent(last, "SESSION_COMPLETE") => store.sessionError = pre.sessionError
  /\ IsEvent(last, "SESSION_ERROR") =>
       /\ store.deliverables = pre.deliverables
       /\ store.finalSummary = pre.finalSummary
  /\ (isGraphEvent(last) /\ pre.sessionStatus \in Terminal) =>
       graphOf(store) = graphOf(handleMessage(unended(pre), last, 0))

C33_EndedWithAPanelOpen ==
  /\ IsEvent(last, "SESSION_ERROR")
  /\ pre.sessionStatus = "running"
  /\ Len(pre.nodes) = 2
  /\ pre.edges # << >>
  /\ pre.selectedNodeId = AgentNodeId("a1")

\* C34: every edge of the edge list starts and ends at a node of the node list.
C34_NoDanglingEdge ==
  \A i \in DOMAIN store.edges :
    /\ hasNode(store, store.edges[i].source)
    /\ hasNode(store, store.edges[i].target)

\* C35: every node id the dependency index holds for a URL is the id of a node
\* of the node list.
C35_IndexPointsAtNodes ==
  \A url \in DOMAIN store.urlToNodeId : hasNode(store, store.urlToNodeId[url])

\* C36: every tool call embedded in the tool list of node agent-X has agentId X
\* and equals the entry of the tool-call map with the same tool-call id; and a
\* completion event changes the embedded copies of no node but that of the
\* agent that owns the tool call.
C36_EmbeddedCopiesAgree ==
  /\ \A i \in DOMAIN store.nodes :
       Has(store.nodes[i].data, "toolCalls") =>
         \A k \in DOMAIN store.nodes[i].data.toolCalls :
           LET tool == store.nodes[i].data.toolCalls[k]
           IN  /\ store.nodes[i].id = AgentNodeId(tool.agentId)
               /\ Has(store.toolCalls, tool.id)
               /\ store.toolCalls[tool.id] = tool
  /\ (IsEvent(last, "TOOL_CALL_COMPLETE") /\ Has(pre.toolCalls, last.data.tool_use_id)) =>
       \A i \in DOMAIN store.nodes :
         store.nodes[i].id # AgentNodeId(pre.toolCalls[last.data.tool_use_id].agentId)
           => store.nodes[i] = pre.nodes[i]

\* C37: every agent of the agent map has a node agent-<id> in the node list,
\* and every node of that id shows the status of the map entry.
C37_NodeFollowsAgent ==
  \A id \in DOMAIN store.agents :
    /\ hasNode(store, AgentNodeId(id))
    /\ \A i \in DOMAIN store.nodes :
         store.nodes[i].id = AgentNodeId(id) =>
           store.nodes[i].data.status = store.agents[id].status

\* an edge that addAgent made: into the node of an agent
isSpawnEdge(edge) == edge.id[1] = "edge" /\ edge.target[1] = "agent"

\* C38: a spawn edge is animated exactly when the agent of its target node is
\* running in the agent map.
C38_AnimatedIffRunning ==
  \A i \in DOMAIN store.edges :
    isSpawnEdge(store.edges[i]) =>
      LET id == store.edges[i].target[2]
      IN  /\ Has(store.agents, id)
          /\ store.edges[i].animated <=> store.agents[id].status = "running"

\* C39: whenever the session status is running, complete or error, a session
\* was started: the session id is not null and the root node is in the list.
C39_StatusImpliesSession ==
  store.sessionStatus \in {"running", "complete", "error"} =>
    /\ store.sessionId # NULL
    /\ hasNode(store, OrchestratorNodeId)

\* C40: whenever the session status is idle or running, the deliverable list
\* is empty and the final summary is null; deliverables come into the list
\* through a session-completed event alone.
C40_DeliverablesOnlyWhenComplete ==
  /\ store.sessionStatus \in {"idle", "running"} =>
       /\ store.deliverables = << >>
       /\ store.finalSummary = NoSummary
  /\ (store.deliverables # << >> /\ store.deliverables # pre.deliverables) =>
       IsEvent(last, "SESSION_COMPLETE")

C40_NewSessionAfterDeliverables ==
  /\ IsEvent(last, "SESSION_STARTED")
  /\ pre.sessionStatus = "complete"
  /\ pre.deliverables # << >>
  /\ pre.finalSummary # NoSummary
  /\ store.sessionStatus = "running"

====
